---- MODULE Spec2Model ----
(***************************************************************************)
(* A model of the particle filter of src/src/particle_filter.cpp:          *)
(* init, prediction, findNearestNeighbour, updateWeights, resample and     *)
(* SetAssociations, acting on the filter's population `particles` and its  *)
(* weight vector `weights`.                                                *)
(*                                                                         *)
(* Numbers.  Positions, offsets and standard deviations are integers.      *)
(* Angles are counted in quarter turns (theta = q means q*pi/2), so that   *)
(* sin and cos are exact.  A yaw rate k means k*pi/2 per unit time; in a   *)
(* call with a non-zero yaw rate the speed is given in units of pi/2 per   *)
(* unit time, so that velocity/yaw_rate is the rational velocity/k.        *)
(* A weight is kept symbolically: [pos, num, den, n, s] stands for         *)
(*      exp(-num/den) / (2*pi*s)^n      when pos,   and for 0.0 otherwise, *)
(* with num/den in lowest terms.  A Gaussian draw Normal(m, sd) is a       *)
(* choice among the values m + sd*z, z in NoiseZ.                          *)
(***************************************************************************)
EXTENDS Integers, Sequences, FiniteSets, TLC

VARIABLES particles, weights, call, outcome, steps

vars == <<particles, weights, call, outcome, steps>>

(***************************************************************************)
(* Bounds of the model.                                                    *)
(***************************************************************************)
\* The population size init configures.  The code sets 100 (line 34); the
\* model is parametric in it and is checked for a small population.
NumParticles == 3

\* The number of calls made on the filter in one run.
MaxSteps == 3

\* The standard normal values a Gaussian draw is sampled from.
NoiseZ == {0, 1}

(***************************************************************************)
(* Arithmetic helpers.                                                     *)
(***************************************************************************)
RECURSIVE GCD(_, _)
GCD(a, b) == IF b = 0 THEN a ELSE GCD(b, a % b)

\* The quotient a/k of integers, defined where it is exact.
Quot(a, k) == IF k > 0 THEN a \div k ELSE -(a \div (-k))

\* sin and cos of q quarter turns (math.h sin, cos at multiples of pi/2).
Sin(q) == CASE q % 4 = 0 -> 0 [] q % 4 = 1 -> 1 [] q % 4 = 2 -> 0 [] OTHER -> -1

Cos(q) == Sin(q + 1)

\* The largest x for which the double exp(-x) is not 0.0 (745.13...).
ExpUnderflow == 745

\* The weight 1.0 and the weight 0.0.
One == [pos |-> TRUE, num |-> 0, den |-> 1, n |-> 0, s |-> 1]

Zero == [pos |-> FALSE, num |-> 0, den |-> 1, n |-> 0, s |-> 1]

\* weight * exp(-en/ed) / (2*pi*sn): the double product, which is 0.0 once
\* the accumulated exponent passes the underflow boundary of exp.
TimesDensity(w, en, ed, sn) ==
  IF ~w.pos THEN Zero
  ELSE LET rn == w.num * ed + en * w.den
           rd == w.den * ed
           g  == GCD(rn, rd)
       IN  IF rn > ExpUnderflow * rd THEN Zero
           ELSE [pos |-> TRUE, num |-> rn \div g, den |-> rd \div g,
                 n |-> w.n + 1, s |-> sn]

(***************************************************************************)
(* The values of the data model.                                           *)
(***************************************************************************)
\* A value-initialised Particle, as vector::resize appends it.
NewParticle ==
  [id |-> 0, x |-> 0, y |-> 0, theta |-> 0, weight |-> Zero,
   associations |-> <<>>, sense_x |-> <<>>, sense_y |-> <<>>]

Landmark(id, x, y) == [id_i |-> id, x_f |-> x, y_f |-> y]

Obs(id, x, y) == [id |-> id, x |-> x, y |-> y]

\* The values Normal(mean, sd) is sampled from.
Normal(mean, sd) == {mean + sd * z : z \in NoiseZ}

(***************************************************************************)
(* The calls the harness makes: the inputs of each operation.              *)
(***************************************************************************)
InitCalls ==
  {[x |-> 0, y |-> 0, theta |-> 0, std |-> sd] : sd \in {<<0, 0, 0>>, <<40, 0, 0>>}}

PredictionCalls ==
  {[delta_t |-> 1, std_pos |-> sd, velocity |-> 1, yaw_rate |-> k] :
     sd \in {<<0, 0, 0>>, <<0, 1, 0>>}, k \in {0, 1}}

MapLists ==
  {<<>>, <<Landmark(1, 0, 0)>>, <<Landmark(1, 0, 0), Landmark(2, 0, 2)>>}

ObservationLists ==
  {<<>>, <<Obs(0, 0, 0)>>, <<Obs(0, 0, 0), Obs(0, 0, 1)>>}

UpdateCalls ==
  {[sensor_range |-> 50, std_landmark |-> sd, observations |-> obs,
    map_landmarks |-> m] :
     sd \in {<<1, 1>>, <<2, 1>>}, obs \in ObservationLists, m \in MapLists}

AssociationCalls ==
  {[associations |-> <<>>, sense_x |-> <<>>, sense_y |-> <<>>],
   [associations |-> <<1>>, sense_x |-> <<0>>, sense_y |-> <<0>>]}

\* What a read through the dangling landmark reference of an empty map may
\* return.
GarbageLandmarks == {Landmark(0, 0, 0), Landmark(7, 40, 0)}

(***************************************************************************)
(* init, lines 25-52.                                                      *)
(***************************************************************************)
\* particles.resize(num_particles): the first elements are kept, the rest
\* are value-initialised.
Resized(ps, n) ==
  [i \in 1..n |-> IF i <= Len(ps) THEN ps[i] ELSE NewParticle]

init ==
  \E c \in InitCalls :
    \E xs \in [1..NumParticles -> Normal(c.x, c.std[1])],
       ys \in [1..NumParticles -> Normal(c.y, c.std[2])],
       ts \in [1..NumParticles -> Normal(c.theta, c.std[3])] :
      /\ particles' =
           [i \in 1..NumParticles |->
              [Resized(particles, NumParticles)[i] EXCEPT
                 !.x = xs[i], !.y = ys[i], !.theta = ts[i], !.weight = One]]
      /\ call' = [op |-> "init", args |-> <<>>]
      /\ outcome' = "ok"
      /\ UNCHANGED weights

(***************************************************************************)
(* prediction, lines 54-81.                                                *)
(***************************************************************************)
\* fabs(yaw_rate) > 1E-6, for a yaw rate of k quarter turns per unit time.
IsTurning(yaw_rate) == yaw_rate # 0

\* Lines 69-71 and 75-77: one particle moved, nx, ny, nt the noise drawn.
Moved(p, delta_t, velocity, yaw_rate, nx, ny, nt) ==
  IF IsTurning(yaw_rate)
  THEN [p EXCEPT
          !.x = p.x + Quot(velocity * (Sin(p.theta + yaw_rate * delta_t)
                                         - Sin(p.theta)), yaw_rate) + nx,
          !.y = p.y + Quot(velocity * (Cos(p.theta + yaw_rate * delta_t)
                                         - Cos(p.theta)), yaw_rate) + ny,
          !.theta = p.theta + yaw_rate * delta_t + nt]
  ELSE [p EXCEPT
          !.x = p.x + velocity * delta_t * Cos(p.theta) + nx,
          !.y = p.y + velocity * delta_t * Sin(p.theta) + ny,
          !.theta = p.theta + yaw_rate * delta_t + nt]

prediction ==
  \E c \in PredictionCalls :
    \E nx \in [1..Len(particles) -> Normal(0, c.std_pos[1])],
       ny \in [1..Len(particles) -> Normal(0, c.std_pos[2])],
       nt \in [1..Len(particles) -> Normal(0, c.std_pos[3])] :
      /\ particles' =
           [i \in 1..Len(particles) |->
              Moved(particles[i], c.delta_t, c.velocity, c.yaw_rate,
                    nx[i], ny[i], nt[i])]
      /\ call' = [op |-> "prediction", args |-> c]
      /\ outcome' = "ok"
      /\ UNCHANGED weights

(***************************************************************************)
(* findNearestNeighbour, lines 96-107.                                     *)
(***************************************************************************)
\* double minDist = 1E9, line 97.
MinDistInit == 1000000000

SqDist(x, y, lm) ==
  (x - lm.x_f) * (x - lm.x_f) + (y - lm.y_f) * (y - lm.y_f)

\* The loop of lines 99-105 from landmark i on; nn is the index of the
\* landmark the pointer nn refers to.
RECURSIVE NearestScan(_, _, _, _, _, _)
NearestScan(x, y, list, i, minDist, nn) ==
  IF i > Len(list) THEN nn
  ELSE IF SqDist(x, y, list[i]) < minDist
       THEN NearestScan(x, y, list, i + 1, SqDist(x, y, list[i]), i)
       ELSE NearestScan(x, y, list, i + 1, minDist, nn)

\* The index of the landmark returned, for a non-empty landmark list.
NearestIndex(x, y, list) == NearestScan(x, y, list, 1, MinDistInit, 1)

findNearestNeighbour(x, y, list) == list[NearestIndex(x, y, list)]

(***************************************************************************)
(* updateWeights, lines 109-142.                                           *)
(***************************************************************************)
\* Lines 132-133: the observation in the map frame.
XMap(p, obs) == p.x + Cos(p.theta) * obs.x - Sin(p.theta) * obs.y

YMap(p, obs) == p.y + Sin(p.theta) * obs.x + Cos(p.theta) * obs.y

\* Lines 135-137: weight *= P for an offset (dx, dy) from the landmark.  The
\* exponent of P is dx*dx/2*std[0]/sigX2 + dy*dy/sigY2.
TimesP(w, dx, dy, std_landmark) ==
  LET sigX2 == std_landmark[1] * std_landmark[1]
      sigY2 == std_landmark[2] * std_landmark[2]
  IN  TimesDensity(w,
                   dx * dx * std_landmark[1] * sigY2 + 2 * dy * dy * sigX2,
                   2 * sigX2 * sigY2,
                   std_landmark[1] * std_landmark[2])

\* The landmark line 134 yields: the nearest one, or, for an empty map, what
\* the dangling reference reads (junk).
Associated(x, y, list, junk) ==
  IF Len(list) = 0 THEN junk ELSE findNearestNeighbour(x, y, list)

\* Lines 130-138 for one particle: its weight after observations k..end.
RECURSIVE WeightFrom(_, _, _, _, _, _, _)
WeightFrom(w, p, observations, k, std_landmark, list, junk) ==
  IF k > Len(observations) THEN w
  ELSE LET xm == XMap(p, observations[k])
           ym == YMap(p, observations[k])
           lm == Associated(xm, ym, list, junk)
       IN  WeightFrom(TimesP(w, xm - lm.x_f, ym - lm.y_f, std_landmark),
                      p, observations, k + 1, std_landmark, list, junk)

Weighted(p, c, junk) ==
  [p EXCEPT !.weight = WeightFrom(One, p, c.observations, 1, c.std_landmark,
                                  c.map_landmarks, junk)]

\* The call reads a landmark of an empty map: undefined behaviour.
ReadsEmptyMap(c) ==
  Len(particles) > 0 /\ Len(c.observations) > 0 /\ Len(c.map_landmarks) = 0

\* Line 140 without the transform of line 141: the entries already there are
\* kept, the new ones are value-initialised.
ResizedOnly(ps) ==
  [i \in 1..Len(ps) |-> IF i <= Len(weights) THEN weights[i] ELSE Zero]

\* Lines 140-141.
Collected(ps) == [i \in 1..Len(ps) |-> ps[i].weight]

updateWeights ==
  \E c \in UpdateCalls :
    /\ call' = [op |-> "updateWeights", args |-> c]
    /\ IF ReadsEmptyMap(c)
       THEN \/ \* the read faults: the first particle's weight has been reset
               /\ particles' = [particles EXCEPT ![1].weight = One]
               /\ outcome' = "crash"
               /\ UNCHANGED weights
            \/ \* the read yields junk
               \E junk \in GarbageLandmarks :
                 /\ particles' = [i \in 1..Len(particles) |->
                                    Weighted(particles[i], c, junk)]
                 /\ weights' = Collected(particles')
                 /\ outcome' = "ok"
       ELSE /\ particles' = [i \in 1..Len(particles) |->
                               Weighted(particles[i], c, Landmark(0, 0, 0))]
            /\ weights' = Collected(particles')
            /\ outcome' = "ok"

(***************************************************************************)
(* resample, lines 144-158.                                                *)
(***************************************************************************)
\* The weight vector has a strictly positive sum.
PositiveSum(ws) == \E i \in 1..Len(ws) : ws[i].pos

\* The indices (from 0) discrete_distribution<>(weights.begin(), weights.end())
\* can produce: 0 for an empty range; the indices of positive weight when the
\* sum is positive; and for weights that sum to 0 the behaviour is undefined,
\* a build producing some index of the range.
\* A draw that ignores the weights: any index of the range.
UniformIndices(ws) == IF Len(ws) = 0 THEN {0} ELSE 0..Len(ws) - 1

DrawnIndices(ws) ==
  IF Len(ws) = 0 THEN {0}
  ELSE IF PositiveSum(ws) THEN {i \in 0..Len(ws) - 1 : ws[i + 1].pos}
       ELSE 0..Len(ws) - 1

\* The new population sized by the weight vector instead.
SizeOfWeights(ps) == Len(weights)

\* vector<Particle> newParticles(particles.size()), line 151.
NewParticlesSize(ps) == Len(ps)

\* Lines 154-156: every slot of the new population is assigned the particle
\* at a drawn index; no slot, no draw.
resample ==
  /\ IF NewParticlesSize(particles) = 0
     THEN particles' = <<>>
     ELSE particles' \in
            [1..NewParticlesSize(particles) ->
               {particles[j + 1] : j \in DrawnIndices(weights)}]
  /\ call' = [op |-> "resample", args |-> <<>>]
  /\ outcome' = "ok"
  /\ UNCHANGED weights

(***************************************************************************)
(* SetAssociations, lines 160-172, on a particle of the population.        *)
(***************************************************************************)
SetAssociations ==
  \E i \in 1..Len(particles), c \in AssociationCalls :
    /\ particles' = [particles EXCEPT
                       ![i].associations = c.associations,
                       ![i].sense_x = c.sense_x,
                       ![i].sense_y = c.sense_y]
    /\ call' = [op |-> "SetAssociations", args |-> <<>>]
    /\ outcome' = "ok"
    /\ UNCHANGED weights

(***************************************************************************)
(* The filter: constructed empty, then any calls in any order, until a     *)
(* call faults.                                                            *)
(***************************************************************************)
Init ==
  /\ particles = <<>>
  /\ weights = <<>>
  /\ call = [op |-> "construct", args |-> <<>>]
  /\ outcome = "ok"
  /\ steps = 0

Step(A) == outcome = "ok" /\ steps < MaxSteps /\ steps' = steps + 1 /\ A

Next ==
  \/ Step(init)
  \/ Step(prediction)
  \/ Step(updateWeights)
  \/ Step(resample)
  \/ Step(SetAssociations)

Spec == Init /\ [][Next]_vars

(***************************************************************************)
(* findNearestNeighbour on its own: a landmark map and a query point are   *)
(* drawn, and the function is applied to them.                             *)
(***************************************************************************)
FarCoordinates == {0, 1, 5000, 40000}

FarLandmarks == {Landmark(1, x, y) : x \in FarCoordinates, y \in {0, 1}}

FarMaps ==
  {<<a>> : a \in FarLandmarks}
    \cup {<<a, [b EXCEPT !.id_i = 2]>> : a \in FarLandmarks, b \in FarLandmarks}

NNInit ==
  /\ particles = <<>>
  /\ weights = <<>>
  /\ \E m \in FarMaps, x \in FarCoordinates, y \in {0, 1} :
       call = [op |-> "query", args |-> [x |-> x, y |-> y, map |-> m]]
  /\ outcome = "ok"
  /\ steps = 0

Associate ==
  /\ call.op = "query"
  /\ call' = [op |-> "findNearestNeighbour", args |-> call.args,
              index |-> NearestIndex(call.args.x, call.args.y, call.args.map),
              result |-> findNearestNeighbour(call.args.x, call.args.y,
                                              call.args.map)]
  /\ steps' = steps + 1
  /\ UNCHANGED <<particles, weights, outcome>>

NNNext == Associate

SpecNN == NNInit /\ [][NNNext]_vars

(***************************************************************************)
(* The claims.                                                             *)
(***************************************************************************)
\* The i-th entry of the weight vector is the weight of the i-th particle.
Aligned ==
  /\ Len(weights) = Len(particles)
  /\ \A i \in 1..Len(particles) : weights[i] = particles[i].weight

\* C1: init leaves a population of the configured size, and no call other
\* than init changes the length of the population; so once init has run the
\* population has the configured size after any sequence of prediction,
\* updateWeights and resample calls.
C1_PopulationSize ==
  [][/\ call'.op = "init" => Len(particles') = NumParticles
     /\ call'.op # "init" => Len(particles') = Len(particles)]_vars

\* A filter cycle has run on a population of the configured size.
C1_Witness ==
  /\ call.op = "resample"
  /\ steps >= 3
  /\ Len(weights) = NumParticles
  /\ Len(particles) = NumParticles

\* C2: when the weight vector has a strictly positive sum, every slot of the
\* population after resample is a full copy of a particle of the population
\* before it whose entry of the weight vector is strictly positive.
C2_ResampleSelectsPositive ==
  [][call'.op = "resample" /\ PositiveSum(weights) =>
       \A i \in 1..Len(particles') :
         \E j \in 1..Len(weights) :
           weights[j].pos /\ particles'[i] = particles[j]]_vars

\* resample has run with the weights [0, 0, 1, 0, ...]: only index 2 is
\* positive, and every slot holds the particle of that weight.
C2_Witness ==
  /\ call.op = "resample"
  /\ Len(weights) = NumParticles
  /\ \A j \in 1..Len(weights) : weights[j].pos <=> j = 3
  /\ \A i \in 1..Len(particles) : particles[i].weight = weights[3]

\* C3: with zero process noise and a non-zero yaw rate w, prediction moves a
\* particle at (x, y, theta) to x + (v/w)*(sin(theta + w*t) - sin(theta)),
\* y + (v/w)*(cos(theta) - cos(theta + w*t)), theta + w*t; from (0, 0, 0)
\* that is ((v/w)*sin(w*t), (v/w)*(1 - cos(w*t)), w*t).
C3_ArcMotion ==
  [][call'.op = "prediction" /\ call'.args.std_pos = <<0, 0, 0>>
       /\ IsTurning(call'.args.yaw_rate) =>
       LET c == call'.args
       IN  \A i \in 1..Len(particles) :
             LET p == particles[i]
                 turned == p.theta + c.yaw_rate * c.delta_t
             IN  /\ particles'[i].x =
                      p.x + Quot(c.velocity * (Sin(turned) - Sin(p.theta)),
                                 c.yaw_rate)
                 /\ particles'[i].y =
                      p.y + Quot(c.velocity * (Cos(p.theta) - Cos(turned)),
                                 c.yaw_rate)
                 /\ particles'[i].theta = turned]_vars

\* The least squared distance from (x, y) to a landmark of the list.
LeastSqDist(x, y, list) ==
  CHOOSE d \in {SqDist(x, y, list[i]) : i \in 1..Len(list)} :
    \A j \in 1..Len(list) : d <= SqDist(x, y, list[j])

\* The first landmark of the list at the least squared distance from (x, y).
FirstNearest(x, y, list) ==
  CHOOSE i \in 1..Len(list) :
    /\ SqDist(x, y, list[i]) = LeastSqDist(x, y, list)
    /\ \A j \in 1..(i - 1) : SqDist(x, y, list[j]) # LeastSqDist(x, y, list)

\* weight * exp(-(dx^2/(2*sigma_x^2) + dy^2/(2*sigma_y^2)))
\*        / (2*pi*sigma_x*sigma_y), the density of the specification.
TimesGaussian(w, dx, dy, sigma) ==
  TimesDensity(w,
               dx * dx * sigma[2] * sigma[2] + dy * dy * sigma[1] * sigma[1],
               2 * sigma[1] * sigma[1] * sigma[2] * sigma[2],
               sigma[1] * sigma[2])

\* The product of the Gaussian densities of observations k..end for pose p.
RECURSIVE GaussianProduct(_, _, _, _, _, _)
GaussianProduct(w, p, observations, k, sigma, list) ==
  IF k > Len(observations) THEN w
  ELSE LET xm == XMap(p, observations[k])
           ym == YMap(p, observations[k])
           lm == list[FirstNearest(xm, ym, list)]
       IN  GaussianProduct(TimesGaussian(w, xm - lm.x_f, ym - lm.y_f, sigma),
                           p, observations, k + 1, sigma, list)

\* C4: after updateWeights each particle's weight is the product, over the
\* observations of the call, of the bivariate Gaussian density of the offset
\* between the transformed observation and its nearest landmark, each squared
\* offset divided by twice its own variance; no observation leaves 1.0.
C4_WeightIsGaussianProduct ==
  call.op = "updateWeights" /\ outcome = "ok"
    /\ Len(call.args.map_landmarks) > 0 =>
    \A i \in 1..Len(particles) :
      particles[i].weight =
        GaussianProduct(One, particles[i], call.args.observations, 1,
                        call.args.std_landmark, call.args.map_landmarks)

\* C5: for a non-empty map findNearestNeighbour returns the first landmark
\* at the least squared distance from the query point, however far the point
\* is from the landmarks.
C5_NearestNeighbour ==
  call.op = "findNearestNeighbour" =>
    /\ SqDist(call.args.x, call.args.y, call.result)
         = LeastSqDist(call.args.x, call.args.y, call.args.map)
    /\ call.index = FirstNearest(call.args.x, call.args.y, call.args.map)

\* C6: resample called with a weight vector whose entries are all zero ends
\* in DegenerateWeights or in the documented uniform fallback, never in an
\* undefined draw.
C6_DegenerateWeightsHandled ==
  call.op = "resample" /\ Len(weights) > 0 /\ ~PositiveSum(weights) =>
    outcome \in {"DegenerateWeights", "UniformFallback"}

\* C7: prediction, updateWeights or resample called before init has
\* populated the population ends in an error.
C7_UninitializedFailsFast ==
  call.op \in {"prediction", "updateWeights", "resample"}
    /\ Len(particles) = 0 =>
    outcome = "error"

\* C8: updateWeights called on a populated filter with an observation and an
\* empty map surfaces InvalidMap and leaves every particle weight and the
\* weight vector as they were.
C8_EmptyMapIsInvalidMap ==
  [][call'.op = "updateWeights" /\ Len(particles) > 0
       /\ Len(call'.args.observations) > 0
       /\ Len(call'.args.map_landmarks) = 0 =>
       /\ outcome' = "InvalidMap"
       /\ weights' = weights
       /\ particles' = particles]_vars

\* C9: after every call of init the population has the configured size,
\* every weight is 1.0 and every particle's diagnostic fields are empty.
C9_InitReplacesPopulation ==
  call.op = "init" =>
    /\ Len(particles) = NumParticles
    /\ \A i \in 1..Len(particles) :
         /\ particles[i].weight = One
         /\ particles[i].associations = <<>>
         /\ particles[i].sense_x = <<>>
         /\ particles[i].sense_y = <<>>

\* C10: right after updateWeights the weight vector is aligned with the
\* population; prediction changes only x, y and theta of each particle and
\* leaves the weight vector alone, so it keeps the alignment.
C10_WeightVectorAligned ==
  [][/\ call'.op = "updateWeights" /\ outcome' = "ok" => Aligned'
     /\ call'.op = "prediction" =>
          /\ weights' = weights
          /\ Len(particles') = Len(particles)
          /\ \A i \in 1..Len(particles) :
               [particles'[i] EXCEPT !.x = particles[i].x,
                                     !.y = particles[i].y,
                                     !.theta = particles[i].theta]
                 = particles[i]
          /\ Aligned => Aligned']_vars

\* A prediction has followed an updateWeights that told the particles apart,
\* and the weight vector still holds the particles' weights.
C10_Witness ==
  /\ call.op = "prediction"
  /\ Len(weights) = NumParticles
  /\ Aligned
  /\ \E i, j \in 1..Len(weights) : weights[i] # weights[j]
  /\ \E i \in 1..Len(particles) : particles[i].y # 0

====
